---- MODULE Spec2Model ----
(***************************************************************************)
(* Model of src/pixel_grid_snap.rs: a low-resolution scene rendered to an  *)
(* offscreen canvas by InGameCamera, shown on the window by OuterCamera,   *)
(* whose orthographic scale is recomputed by fit_canvas on window resizes. *)
(*                                                                         *)
(* f32 values are modelled as exact rationals <<numerator, denominator>>;  *)
(* <<1, 0>> stands for +infinity, the IEEE result of 1.0 / 0.0.  Window    *)
(* sizes are non-negative, so no negative value and no NaN arises.         *)
(* Transforms are <<x, y, z>> with z in tenths (1.3 is 13).                *)
(***************************************************************************)
EXTENDS Bags, FiniteSets, Integers, Sequences, TLC

(* ------------------------------ bounds -------------------------------- *)

\* Most WindowResized events the host holds in its event buffer at a time.
MaxEvents == 2

\* Window sizes (width, height) the host reports in WindowResized events.
ResizeInputs ==
    { <<1024, 512>>, <<1536, 512>>, <<511, 256>>, <<800, 400>>, <<300, 100>> }

(* ------------------------- program constants -------------------------- *)

RES_WIDTH == 512
RES_HEIGHT == 256
NUMBER_SPACING == 20
NUMBER_ROWS == 50
NUMBER_COLS == 50
bin_width == 80
bin_height == 40
bin_count == 5
bin_spacing == 10
bar_height == 20
bar_spacing == 5

\* Sample percentages for each bin, in hundredths (0.75 is 75).
percentages == <<75, 45, 90, 30, 60>>

PIXEL_PERFECT_LAYERS == {0}
HIGH_RES_LAYERS == {1}

\* An entity without a RenderLayers component is on layer 0.
DEFAULT_RENDER_LAYERS == {0}

(* ------------------------------ options ------------------------------- *)

None == {}
Some(v) == {v}
Unwrap(o) == CHOOSE v \in o : TRUE

(* --------------------------- f32 arithmetic --------------------------- *)

F32_ONE == <<1, 1>>
F32_INFINITY == <<1, 0>>

\* a <= b for non-negative finite rationals.
f32_le(a, b) == a[1] * b[2] <= b[1] * a[2]

\* Mutant of f32_min: the larger of the two.
f32_max(a, b) == IF f32_le(a, b) THEN b ELSE a

\* f32::min
f32_min(a, b) == IF f32_le(a, b) THEN a ELSE b

\* f32::round: nearest integer, half-way cases away from zero.
f32_round(q) == (2 * q[1] + q[2]) \div (2 * q[2])

\* 1. / n for a non-negative integral n; 1. / 0. is +infinity.
f32_recip(n) == <<1, n>>

(* ----------------------------- fit policy ----------------------------- *)

h_scale(event) == <<event.width, RES_WIDTH>>
v_scale(event) == <<event.height, RES_HEIGHT>>

\* The integer factor chosen for one resize event.
scale_factor(event) == f32_round(f32_min(h_scale(event), v_scale(event)))

\* Mutant of apply_event: scales the current projection instead of
\* replacing its scale.
apply_event_relative(proj, event) ==
    [proj EXCEPT !.scale = <<proj.scale[1], proj.scale[2] * scale_factor(event)>>]

\* Body of the loop of fit_canvas: the projection after one event.
apply_event(proj, event) ==
    [proj EXCEPT !.scale = f32_recip(scale_factor(event))]

\* Mutant of read_events: stops after the first pending event.
read_events_first(proj, events) ==
    IF events = <<>> THEN proj ELSE apply_event(proj, Head(events))

\* Mutant of read_events: falls back to scale 1 when nothing is pending.
read_events_reset(proj, events) ==
    IF events = <<>> THEN [proj EXCEPT !.scale = F32_ONE]
    ELSE apply_event(proj, events[Len(events)])

\* The loop of fit_canvas over the pending events, in the order received.
RECURSIVE read_events(_, _)
read_events(proj, events) ==
    IF events = <<>> THEN proj
    ELSE read_events(apply_event(proj, Head(events)), Tail(events))

(* ------------------------------ entities ------------------------------ *)

\* The components of one spawned entity.  marker is the marker component
\* (Number, Bin, Canvas, InGameCamera, OuterCamera) or "NoMarker"; layers is
\* the RenderLayers component, None when the bundle has none.
Bundle(marker, number, transform, text, font_size, sprite, layers, camera) ==
    [marker |-> marker, number |-> number, transform |-> transform,
     text |-> text, font_size |-> font_size, sprite |-> sprite,
     layers |-> layers, camera |-> camera]

\* commands.spawn: one more entity carrying the bundle.
spawn(w, bundle) == w (+) SetToBag({bundle})

\* A Sprite of a plain colour with a custom size.
sized_sprite(width, height) ==
    Some([image |-> "default", custom_size |-> Some(<<width, height>>)])

number_bundle(i, j) ==
    Bundle("Number", Some(i),
           << -(RES_WIDTH \div 2) + i * NUMBER_SPACING,
              -(RES_HEIGHT \div 2) + j * NUMBER_SPACING, 0 >>,
           Some(ToString(i % 10)), Some(12), None, None, None)

\* Inner loop of setup_numbers: the entities spawned for i, i+1, ... of row j.
RECURSIVE spawn_number_row(_, _)
spawn_number_row(j, i) ==
    IF i = NUMBER_COLS THEN EmptyBag
    ELSE spawn(spawn_number_row(j, i + 1), number_bundle(i, j))

\* The entities spawned by each iteration of the outer loop of setup_numbers.
number_rows == [j \in 0 .. NUMBER_ROWS - 1 |-> spawn_number_row(j, 0)]

\* Outer loop of setup_numbers: the entities spawned for rows j, j+1, ...
RECURSIVE spawn_numbers(_)
spawn_numbers(j) ==
    IF j = NUMBER_ROWS THEN EmptyBag
    ELSE number_rows[j] (+) spawn_numbers(j + 1)

\* Everything setup_numbers spawns.
spawned_numbers == spawn_numbers(0)

\* Position of bin i (0-based) and of its percentage bar.
x_pos(i) == -(RES_WIDTH \div 2) + 60 + i * (bin_width + bin_spacing)
y_pos == -(RES_HEIGHT \div 2) + bin_height \div 2 + 40
bar_y == y_pos - bin_height \div 2 - bar_spacing - bar_height \div 2
fill_width(i) == (bin_width * percentages[i + 1]) \div 100

\* format!("{:02}", n)
format_02(n) == IF n < 10 THEN "0" \o ToString(n) ELSE ToString(n)

bin_bundle(i) ==
    Bundle("Bin", None, <<x_pos(i), y_pos, 10>>, None, None,
           sized_sprite(bin_width, bin_height),
           Some(PIXEL_PERFECT_LAYERS), None)

bin_label_bundle(i) ==
    Bundle("NoMarker", None, <<x_pos(i), y_pos, 13>>,
           Some(format_02(i + 1)), Some(14), None,
           Some(PIXEL_PERFECT_LAYERS), None)

bar_background_bundle(i) ==
    Bundle("NoMarker", None, <<x_pos(i), bar_y, 10>>, None, None,
           sized_sprite(bin_width, bar_height),
           Some(PIXEL_PERFECT_LAYERS), None)

bar_fill_bundle(i) ==
    Bundle("NoMarker", None,
           <<x_pos(i) - (bin_width - fill_width(i)) \div 2, bar_y, 11>>,
           None, None, sized_sprite(fill_width(i), bar_height),
           Some(PIXEL_PERFECT_LAYERS), None)

percentage_text_bundle(i) ==
    Bundle("NoMarker", None, <<x_pos(i), bar_y, 12>>,
           Some(ToString(percentages[i + 1]) \o "%"), Some(10), None,
           Some(PIXEL_PERFECT_LAYERS), None)

\* Mutant of spawn_bin: four spawns, the percentage text left out.
spawn_bin_four(w, i) ==
    spawn(spawn(spawn(spawn(w,
        bin_bundle(i)),
        bin_label_bundle(i)),
        bar_background_bundle(i)),
        bar_fill_bundle(i))

\* The five spawns of one iteration of the loop of setup_bins.
spawn_bin(w, i) ==
    spawn(spawn(spawn(spawn(spawn(w,
        bin_bundle(i)),
        bin_label_bundle(i)),
        bar_background_bundle(i)),
        bar_fill_bundle(i)),
        percentage_text_bundle(i))

\* The loop of setup_bins: the entities spawned for bins i, i+1, ...
RECURSIVE spawn_bins(_)
spawn_bins(i) ==
    IF i = bin_count THEN EmptyBag
    ELSE spawn_bin(spawn_bins(i + 1), i)

\* Mutant of in_game_camera_bundle: ordered after the outer camera.
in_game_camera_bundle_late ==
    Bundle("InGameCamera", None, <<0, 0, 0>>, None, None, None,
           Some(PIXEL_PERFECT_LAYERS),
           Some([order |-> 1, target |-> "Image"]))

\* Camera rendering PIXEL_PERFECT_LAYERS to the canvas image, before the
\* "main pass" camera.
in_game_camera_bundle ==
    Bundle("InGameCamera", None, <<0, 0, 0>>, None, None, None,
           Some(PIXEL_PERFECT_LAYERS),
           Some([order |-> -1, target |-> "Image"]))

\* The sprite showing the canvas image.
canvas_bundle ==
    Bundle("Canvas", None, <<0, 0, 0>>, None, None,
           Some([image |-> "canvas", custom_size |-> None]),
           Some(HIGH_RES_LAYERS), None)

\* Mutant of outer_camera_bundle: spawned without HIGH_RES_LAYERS.
outer_camera_bundle_untagged ==
    Bundle("OuterCamera", None, <<0, 0, 0>>, None, None, None,
           None,
           Some([order |-> 0, target |-> "Window"]))

\* Camera rendering HIGH_RES_LAYERS to the window; Camera::default() has
\* order 0 and the window as target.
outer_camera_bundle ==
    Bundle("OuterCamera", None, <<0, 0, 0>>, None, None, None,
           Some(HIGH_RES_LAYERS),
           Some([order |-> 0, target |-> "Window"]))

\* The three spawns of setup_camera.
spawn_cameras(w) ==
    spawn(spawn(spawn(w, in_game_camera_bundle), canvas_bundle),
          outer_camera_bundle)

(* ----------------------------- rendering ------------------------------ *)

\* The layers an entity is on.
render_layers(e) ==
    IF e.layers = None THEN DEFAULT_RENDER_LAYERS ELSE Unwrap(e.layers)

\* A camera draws the entities that share a layer with it.
visible(cam, e) == render_layers(cam) \cap render_layers(e) # {}

entities(w) == BagToSet(w)
cameras(w) == {e \in entities(w) : e.camera # None}
\* An entity with a Text2d or a Sprite is something a camera can draw.
renderable(e) == e.text # None \/ e.sprite # None
renderables(w) == {e \in entities(w) : renderable(e)}

\* The cameras in the order the render graph runs them: ascending order.
sorted_cameras(w) ==
    CHOOSE s \in [1 .. Cardinality(cameras(w)) -> cameras(w)] :
        /\ \A a, b \in DOMAIN s : a # b => s[a] # s[b]
        /\ \A a, b \in DOMAIN s :
              a < b => Unwrap(s[a].camera).order <= Unwrap(s[b].camera).order

\* What one camera's pass does to the canvas image.
render_pass(w, cam) ==
    [camera |-> cam.marker,
     writes_canvas |-> Unwrap(cam.camera).target = "Image",
     samples_canvas |->
        \E e \in renderables(w) :
            /\ visible(cam, e)
            /\ e.sprite # None
            /\ Unwrap(e.sprite).image = "canvas"]

(* ------------------------------- state -------------------------------- *)

VARIABLES
    world,            \* bag of the bundles of the entities spawned so far
    canvas_size,      \* size of the canvas image, None before setup_camera
    projection,       \* Projection component of the OuterCamera entity
    startup,          \* Startup systems that have run
    resize_events,    \* WindowResized events held by the host
    last_event_count, \* cursor of fit_canvas's EventReader into resize_events
    batch_start,      \* the cursor before the latest run of fit_canvas
    passes            \* the passes of the latest frame, in execution order

vars == <<world, canvas_size, projection, startup, resize_events,
          last_event_count, batch_start, passes>>

StartupSystems == {"setup_numbers", "setup_camera", "setup_bins"}
started == startup = StartupSystems

\* Events the reader has not read yet, and those its latest run read.
pending == SubSeq(resize_events, last_event_count + 1, Len(resize_events))
latest_batch == SubSeq(resize_events, batch_start + 1, last_event_count)

Init ==
    /\ world = EmptyBag
    /\ canvas_size = None
    /\ projection = None
    /\ startup = {}
    /\ resize_events = <<>>
    /\ last_event_count = 0
    /\ batch_start = 0
    /\ passes = <<>>

setup_numbers ==
    /\ "setup_numbers" \notin startup
    /\ startup' = startup \cup {"setup_numbers"}
    /\ world' = world (+) spawned_numbers
    /\ UNCHANGED <<canvas_size, projection, resize_events,
                   last_event_count, batch_start, passes>>

setup_bins ==
    /\ "setup_bins" \notin startup
    /\ startup' = startup \cup {"setup_bins"}
    /\ world' = world (+) spawn_bins(0)
    /\ UNCHANGED <<canvas_size, projection, resize_events,
                   last_event_count, batch_start, passes>>

\* Camera2d brings an orthographic Projection of scale 1 to each camera.
setup_camera ==
    /\ "setup_camera" \notin startup
    /\ startup' = startup \cup {"setup_camera"}
    /\ canvas_size' = Some(<<RES_WIDTH, RES_HEIGHT>>)
    /\ world' = spawn_cameras(world)
    /\ projection' = Some([kind |-> "Orthographic", scale |-> F32_ONE])
    /\ UNCHANGED <<resize_events, last_event_count, batch_start, passes>>

\* The host records a WindowResized event.
window_resized ==
    /\ Len(resize_events) < MaxEvents
    /\ \E size \in ResizeInputs :
         resize_events' =
            Append(resize_events, [width |-> size[1], height |-> size[2]])
    /\ UNCHANGED <<world, canvas_size, projection, startup,
                   last_event_count, batch_start, passes>>

\* The host retires the events that fit_canvas has read.
event_update ==
    /\ last_event_count > 0
    /\ resize_events' = pending
    /\ last_event_count' = 0
    /\ batch_start' = 0
    /\ UNCHANGED <<world, canvas_size, projection, startup, passes>>

\* One FixedUpdate tick, which the host runs once Startup is over.
fit_canvas ==
    /\ started
    /\ IF Unwrap(projection).kind # "Orthographic"
       THEN UNCHANGED <<projection, last_event_count, batch_start>>
       ELSE /\ projection' = Some(read_events(Unwrap(projection), pending))
            /\ last_event_count' = Len(resize_events)
            /\ batch_start' = last_event_count
    /\ UNCHANGED <<world, canvas_size, startup, resize_events, passes>>

\* The host renders one frame: one pass per camera.
render_frame ==
    /\ started
    /\ LET order == sorted_cameras(world)
       IN  passes' = [k \in DOMAIN order |-> render_pass(world, order[k])]
    /\ UNCHANGED <<world, canvas_size, projection, startup, resize_events,
                   last_event_count, batch_start>>

Next ==
    \/ setup_numbers
    \/ setup_bins
    \/ setup_camera
    \/ window_resized
    \/ event_update
    \/ fit_canvas
    \/ render_frame

Spec == Init /\ [][Next]_vars

(* ------------------------------- claims ------------------------------- *)

Min(a, b) == IF a <= b THEN a ELSE b

\* The outer camera's orthographic scale (its zoom).
zoom == Unwrap(projection).scale

\* The latest run of fit_canvas read at least one event.
handled == started /\ batch_start < last_event_count

\* The last event the latest run of fit_canvas read.
last_read == resize_events[last_event_count]

covers_canvas(e) == e.width >= RES_WIDTH /\ e.height >= RES_HEIGHT

\* floor(min(W / 512, H / 256))
floor_factor(e) == Min(e.width \div RES_WIDTH, e.height \div RES_HEIGHT)

\* C1: after fit_canvas handles a resize event (W, H) with W >= 512 and
\* H >= 256, the zoom is 1 / floor(min(W / 512, H / 256)).
C1_ZoomIsFloorReciprocal ==
    (handled /\ covers_canvas(last_read)) =>
        zoom = <<1, floor_factor(last_read)>>

\* C2: after fit_canvas handles a resize event (W, H) with W >= 512 and
\* H >= 256, the canvas at the chosen factor s = 1 / zoom fits the window,
\* and s is the largest integer for which it does.
C2_CanvasFitsWindow ==
    (handled /\ covers_canvas(last_read)) =>
        LET s == zoom[2] IN
        /\ zoom[1] = 1
        /\ RES_WIDTH * s <= last_read.width
        /\ RES_HEIGHT * s <= last_read.height
        /\ ~ ( /\ RES_WIDTH * (s + 1) <= last_read.width
               /\ RES_HEIGHT * (s + 1) <= last_read.height )

all_equal(events) == \A k \in DOMAIN events : events[k] = events[1]

\* C3: handling the same resize event again, in the same tick or in the next
\* one, leaves the zoom that handling it once gives, whatever the zoom was.
C3_Idempotent ==
    [][ (fit_canvas /\ pending # <<>> /\ all_equal(pending)) =>
          /\ projection' = Some(apply_event(Unwrap(projection), pending[1]))
          /\ (handled /\ last_read = pending[1]) => projection' = projection
      ]_vars

\* C3 witness: a tick has read the same event twice and the zoom is the one
\* of that event, different from the initial zoom.
C3_Witness ==
    /\ handled
    /\ Len(latest_batch) >= 2
    /\ all_equal(latest_batch)
    /\ zoom = <<1, scale_factor(last_read)>>
    /\ zoom # F32_ONE

\* C4: a tick reads all pending resize events in order, and the zoom it
\* leaves is the one of the last event alone.
C4_LastEventWins ==
    [][ (fit_canvas /\ pending # <<>>) =>
          /\ last_event_count' = Len(resize_events)
          /\ projection' =
                Some([kind |-> "Orthographic",
                      scale |-> <<1, scale_factor(pending[Len(pending)])>>])
      ]_vars

\* C4 witness: a tick has read two events that give different zooms and the
\* zoom is the one of the second.
C4_Witness ==
    /\ handled
    /\ Len(latest_batch) >= 2
    /\ scale_factor(latest_batch[1]) # scale_factor(last_read)
    /\ zoom = <<1, scale_factor(last_read)>>

event_1536_512 == [width |-> 1536, height |-> 512]

\* C5 as stated: after the resize event (1536, 512) the factor is 3 and the
\* zoom is 1/3.
C5_ZoomOneThird ==
    (handled /\ last_read = event_1536_512) =>
        /\ scale_factor(last_read) = 3
        /\ zoom = <<1, 3>>

\* C5 amended: after the resize event (1536, 512) the factor is 2, the
\* smaller of 1536/512 = 3 and 512/256 = 2, and the zoom is 1/2.
C5_ZoomOneHalf ==
    (handled /\ last_read = event_1536_512) =>
        /\ scale_factor(last_read) = 2
        /\ zoom = <<1, 2>>

\* C5 witness: fit_canvas has handled (1536, 512) and the zoom is 1/2.
C5_Witness ==
    /\ handled
    /\ last_read = event_1536_512
    /\ zoom = <<1, 2>>

event_511_256 == [width |-> 511, height |-> 256]

\* C6: after the resize event (511, 256) the factor is 0 and the zoom is the
\* unguarded 1/0.
C6_ZeroFactor ==
    (handled /\ last_read = event_511_256) =>
        /\ scale_factor(last_read) = 0
        /\ zoom = F32_INFINITY

marker_of(e) == e.marker

\* Number of entities of the world that carry the marker.
count(w, marker) == CopiesIn(marker, BagOfAll(marker_of, w))

\* The entities setup_bins spawns carry the Bin marker or none.
bar_chart_count(w) == count(w, "Bin") + count(w, "NoMarker")

Digits == <<"0", "1", "2", "3", "4", "5", "6", "7", "8", "9">>

\* One numeric label per (i, j) of the grid, showing i mod 10.
number_grid ==
    LET numbers == {x \in DOMAIN world : x.marker = "Number"} IN
    /\ count(world, "Number") = 2500
    /\ \A e \in numbers :
          LET i == (e.transform[1] + 256) \div 20
              j == (e.transform[2] + 128) \div 20
          IN  /\ i \in 0 .. 49 /\ j \in 0 .. 49
              /\ e.transform = <<20 * i - 256, 20 * j - 128, 0>>
              /\ e.number = Some(i)
              /\ e.text = Some(Digits[(i % 10) + 1])
    /\ Cardinality({e.transform : e \in numbers}) = 2500

\* C7 as stated: after startup there are 2500 numeric labels and 20
\* bar-chart entities.
C7_TwentyBarChartEntities ==
    started =>
        /\ count(world, "Number") = 2500
        /\ bar_chart_count(world) = 20

\* C7 amended: after startup there are exactly 2500 numeric labels, one per
\* (i, j) with text i mod 10, and exactly 25 bar-chart entities, 5 per bin
\* (the bin and 4 sub-elements); no later step creates or removes any.
C7_TwentyFiveBarChartEntities ==
    /\ [](started =>
            /\ number_grid
            /\ bar_chart_count(world) = 25
            /\ count(world, "Bin") = 5
            /\ BagCardinality(world) = 2500 + 25 + 3)
    /\ [][started => world' = world]_vars

\* C7 witness: startup is over and a frame has been rendered with the 2500
\* labels and the 25 bar-chart entities in the world.
C7_Witness ==
    /\ started
    /\ passes # <<>>
    /\ count(world, "Number") = 2500
    /\ bar_chart_count(world) = 25

\* The camera entity that carries the marker.
camera_of(marker) ==
    CHOOSE c \in DOMAIN world : c.camera # None /\ c.marker = marker

\* C8: after startup each entity on the pixel-perfect layer, tagged or not,
\* is drawn by InGameCamera and not by OuterCamera, each entity on the
\* high-res layer by OuterCamera and not by InGameCamera, and no entity or
\* camera is on both layers.
C8_LayerExclusivity ==
    started =>
        LET in_game == camera_of("InGameCamera")
            outer == camera_of("OuterCamera")
            on_pixel_perfect(e) == PIXEL_PERFECT_LAYERS \subseteq render_layers(e)
            on_high_res(e) == HIGH_RES_LAYERS \subseteq render_layers(e)
        IN  \A e \in DOMAIN world :
              /\ ~ (on_pixel_perfect(e) /\ on_high_res(e))
              /\ renderable(e) =>
                    /\ e.marker \in {"Number", "Bin", "NoMarker"} =>
                          on_pixel_perfect(e)
                    /\ e.marker = "Canvas" => on_high_res(e)
                    /\ on_pixel_perfect(e) =>
                          visible(in_game, e) /\ ~visible(outer, e)
                    /\ on_high_res(e) =>
                          visible(outer, e) /\ ~visible(in_game, e)

\* C8 witness: the world holds a numeric label without RenderLayers that
\* only InGameCamera draws, and the canvas sprite that only OuterCamera draws.
C8_Witness ==
    /\ started
    /\ \E e \in renderables(world) :
          /\ e.marker = "Number"
          /\ e.layers = None
          /\ visible(camera_of("InGameCamera"), e)
          /\ ~visible(camera_of("OuterCamera"), e)
    /\ \E e \in renderables(world) :
          /\ e.marker = "Canvas"
          /\ visible(camera_of("OuterCamera"), e)
          /\ ~visible(camera_of("InGameCamera"), e)

\* C9: after startup the world and the canvas size never change, the outer
\* projection changes only in its scale and only when fit_canvas handles a
\* pending resize event, and a tick with nothing pending leaves it as it is.
C9_OnlyZoomChanges ==
    [][ started =>
          /\ world' = world
          /\ canvas_size' = canvas_size
          /\ projection' # projection =>
                /\ fit_canvas
                /\ pending # <<>>
                /\ Unwrap(projection').kind = Unwrap(projection).kind
          /\ (fit_canvas /\ pending = <<>>) => projection' = projection
      ]_vars

\* C9 witness: after a tick changed the zoom, a later tick found nothing
\* pending and the zoom kept its value; the scene is complete.
C9_Witness ==
    /\ started
    /\ last_event_count > 0
    /\ batch_start = last_event_count
    /\ zoom # F32_ONE
    /\ canvas_size = Some(<<512, 256>>)
    /\ BagCardinality(world) = 2528

\* C10: in every frame the pass of InGameCamera, which writes the canvas,
\* runs before the pass of OuterCamera, which samples it.
C10_CanvasWrittenBeforeSampled ==
    \A k \in DOMAIN passes :
        /\ passes[k].samples_canvas =>
              \E j \in 1 .. k - 1 : passes[j].writes_canvas
        /\ passes[k].camera = "OuterCamera" =>
              \E j \in 1 .. k - 1 : passes[j].camera = "InGameCamera"

\* C10 witness: a frame has run both passes, the canvas written by the first
\* and sampled by the second.
C10_Witness ==
    /\ Len(passes) = 2
    /\ passes[1].camera = "InGameCamera" /\ passes[1].writes_canvas
    /\ passes[2].camera = "OuterCamera" /\ passes[2].samples_canvas

====
